---- MODULE Spec2Model ----
(***************************************************************************)
(* Model of src/src/paste/helper.py (PASTE helper routines).               *)
(*                                                                         *)
(* Numbers are exact rationals <<num, den>> in lowest terms with den > 0.  *)
(* The three IEEE-754 values a division by zero produces are kept as       *)
(* den = 0:  <<1,0>> = +inf,  <<-1,0>> = -inf,  <<0,0>> = NaN.             *)
(* Point sets are n-by-1 arrays with integer coordinates, for which        *)
(* pdist and distance_matrix are |a - b| and need no square root.          *)
(* Sequences are 1-based here; numpy's index k is k+1 in the model.        *)
(***************************************************************************)
EXTENDS Integers, Sequences, FiniteSets

\* ---------------------------------------------------------------- bounds
MaxN == 3
MaxCoord == 2
MaxLen == 3
MaxVal == 2
MaxFeat == 3
MaxRows == 2

\* ------------------------------------------------------- float arithmetic
Abs(a) == IF a < 0 THEN -a ELSE a

Sign(a) == IF a < 0 THEN -1 ELSE IF a > 0 THEN 1 ELSE 0

RECURSIVE GCD(_, _)
GCD(a, b) == IF b = 0 THEN a ELSE GCD(b, a % b)

R(n, d) ==
    IF d = 0 THEN <<Sign(n), 0>>
    ELSE LET g == GCD(Abs(n), Abs(d))
             s == IF d < 0 THEN -1 ELSE 1
         IN  <<(s * n) \div g, (s * d) \div g>>

NaN == <<0, 0>>

IsFinite(a) == a[2] # 0

IsNaN(a) == a = NaN

RNeg(a) == <<-a[1], a[2]>>

RAdd(a, b) ==
    IF IsNaN(a) \/ IsNaN(b) THEN NaN
    ELSE IF ~IsFinite(a) THEN (IF ~IsFinite(b) /\ b # a THEN NaN ELSE a)
    ELSE IF ~IsFinite(b) THEN b
    ELSE R(a[1] * b[2] + b[1] * a[2], a[2] * b[2])

RSub(a, b) == RAdd(a, RNeg(b))

RAbs(a) == <<Abs(a[1]), a[2]>>

RMul(a, b) ==
    IF IsFinite(a) /\ IsFinite(b) THEN R(a[1] * b[1], a[2] * b[2])
    ELSE IF IsNaN(a) \/ IsNaN(b) \/ a[1] = 0 \/ b[1] = 0 THEN NaN
    ELSE <<Sign(a[1]) * Sign(b[1]), 0>>

\* a / b for finite a, b; a zero divisor is +0.0: x/0 = +-inf, 0/0 = NaN
RDiv(a, b) == R(a[1] * b[2], a[2] * b[1])

\* a <= b, finite operands
RLe(a, b) == a[1] * b[2] <= b[1] * a[2]

RECURSIVE RSum(_)
RSum(s) == IF s = <<>> THEN R(0, 1) ELSE RAdd(Head(s), RSum(Tail(s)))

\* builtin min() over a non-empty sequence of finite numbers
RECURSIVE RMin(_)
RMin(s) ==
    IF Len(s) = 1 THEN s[1]
    ELSE LET m == RMin(Tail(s)) IN IF RLe(s[1], m) THEN s[1] ELSE m

AllFinite(s) == \A i \in 1..Len(s) : IsFinite(s[i])

\* ------------------------------------------- norm_and_center_coordinates
\* X.mean(axis=0)
Mean(X) == RDiv(RSum([i \in 1..Len(X) |-> R(X[i], 1)]), R(Len(X), 1))

\* scipy.spatial.distance.pdist(X): the |X[i]-X[j]|, i < j, in row-major order
RECURSIVE pdist(_)
pdist(X) ==
    IF Len(X) <= 1 THEN <<>>
    ELSE [j \in 1..(Len(X) - 1) |-> R(Abs(X[1] - X[j + 1]), 1)] \o pdist(Tail(X))

\* min(pdist(X)) raises ValueError on an empty sequence
NormRaises(X) == pdist(X) = <<>>

\* variant: scaled by the minimum pairwise distance but not centred
norm_uncentered(X) ==
    LET d == RMin(pdist(X))
    IN  [i \in 1..Len(X) |-> RDiv(R(X[i], 1), d)]

norm_and_center_coordinates(X) ==
    LET mu == Mean(X)
        d  == RMin(pdist(X))
    IN  [i \in 1..Len(X) |-> RDiv(RSub(R(X[i], 1), mu), d)]

\* --------------------------------------------- scipy.spatial.distance_matrix
distance_matrix(A, B) ==
    [i \in 1..Len(A) |-> [j \in 1..Len(B) |-> RAbs(RSub(A[i], B[j]))]]

MatrixFinite(M) == \A i \in 1..Len(M) : AllFinite(M[i])

\* ------------------------------------------------------------- ot.emd
RECURSIVE LCMDen(_)
LCMDen(s) ==
    IF s = <<>> THEN 1
    ELSE LET l == LCMDen(Tail(s)) IN (l * Head(s)[2]) \div GCD(l, Head(s)[2])

Smaller(a, b) == IF a < b THEN a ELSE b

Larger(a, b) == IF a < b THEN b ELSE a

\* rows of non-negative integers with the given sum, entry j at most caps[j]
RECURSIVE RowSet(_, _)
RowSet(total, caps) ==
    IF caps = <<>> THEN (IF total = 0 THEN {<<>>} ELSE {})
    ELSE UNION { { <<k>> \o r : r \in RowSet(total - k, Tail(caps)) } :
                 k \in 0..Smaller(total, Head(caps)) }

\* integer matrices with row sums A and column sums B
RECURSIVE Tables(_, _)
Tables(A, B) ==
    IF A = <<>> THEN (IF \A j \in 1..Len(B) : B[j] = 0 THEN {<<>>} ELSE {})
    ELSE UNION { { <<r>> \o t :
                   t \in Tables(Tail(A), [j \in 1..Len(B) |-> B[j] - r[j]]) } :
                 r \in RowSet(Head(A), B) }

RECURSIVE Sum(_)
Sum(s) == IF s = <<>> THEN 0 ELSE Head(s) + Sum(Tail(s))

\* sum_ij t[i][j] * W[i][j]
TransportCost(t, W) ==
    Sum([i \in 1..Len(t) |-> Sum([j \in 1..Len(t[i]) |-> t[i][j] * W[i][j]])])

\* The couplings ot.emd(a, b, M) can return: the optimal solutions of the
\* transport problem with integral flow, in units of 1/L where the marginals
\* are multiples of 1/L (the basic solutions are among them).  M is finite;
\* costs are compared as integers over the common denominator Dn of M.
emd(a, b, M) ==
    LET L    == LCMDen(a \o b)
        A    == [i \in 1..Len(a) |-> (a[i][1] * L) \div a[i][2]]
        B    == [j \in 1..Len(b) |-> (b[j][1] * L) \div b[j][2]]
        Dn   == LCMDen([i \in 1..Len(M) |-> <<1, LCMDen(M[i])>>])
        W    == [i \in 1..Len(M) |-> [j \in 1..Len(M[i]) |->
                   (M[i][j][1] * Dn) \div M[i][j][2]]]
        feas == Tables(A, B)
        cost == [t \in feas |-> TransportCost(t, W)]
        costs == { cost[t] : t \in feas }
        best == CHOOSE c \in costs : \A c2 \in costs : c <= c2
    IN  { [i \in 1..Len(a) |-> [j \in 1..Len(b) |-> R(t[i][j], L)]] :
          t \in { u \in feas : cost[u] = best } }

\* np.ones(n)/n
UniformMarginal(n) == [i \in 1..n |-> R(1, n)]

\* ---------- scipy.sparse.csr_matrix + min_weight_full_bipartite_matching
\* csr_matrix(dist) stores the non-zero entries only; these are the edges
csr_matrix(M) ==
    { e \in (1..Len(M)) \X (1..Len(M[1])) : M[e[1]][e[2]] # R(0, 1) }

IsInjective(f) == \A x, y \in DOMAIN f : x # y => f[x] # f[y]

\* full matchings of the graph: every vertex of the smaller side matched once
FullMatchings(E, n1, n2) ==
    IF n1 <= n2
    THEN { { <<i, f[i]>> : i \in 1..n1 } :
           f \in { g \in [1..n1 -> 1..n2] :
                   IsInjective(g) /\ \A i \in 1..n1 : <<i, g[i]>> \in E } }
    ELSE { { <<f[j], j>> : j \in 1..n2 } :
           f \in { g \in [1..n2 -> 1..n1] :
                   IsInjective(g) /\ \A j \in 1..n2 : <<g[j], j>> \in E } }

RECURSIVE MatchCost(_, _)
MatchCost(m, M) ==
    IF m = {} THEN R(0, 1)
    ELSE LET e == CHOOSE x \in m : TRUE
         IN  RAdd(M[e[1]][e[2]], MatchCost(m \ {e}, M))

min_weight_full_bipartite_matching(E, M, n1, n2) ==
    LET all == FullMatchings(E, n1, n2)
    IN  { m \in all : \A q \in all : RLe(MatchCost(m, M), MatchCost(q, M)) }

Transpose(M) == [j \in 1..Len(M[1]) |-> [i \in 1..Len(M) |-> M[i][j]]]

\* variant: the two marginals given in the other order
OTCall_swapped(n1, n2, M) == emd(UniformMarginal(n2), UniformMarginal(n1), Transpose(M))

\* line 24: ot.emd(np.ones(n1)/n1, np.ones(n2)/n2, dist)
OTCall(n1, n2, M) == emd(UniformMarginal(n1), UniformMarginal(n2), M)

\* line 26: the matcher is given the sparse form of the dense matrix
MatchingCall(n1, n2, M) == min_weight_full_bipartite_matching(csr_matrix(M), M, n1, n2)

\* (row_ind, col_ind) of a matching, ordered by row index
RECURSIVE SortedPairs(_)
SortedPairs(m) ==
    IF m = {} THEN <<>>
    ELSE LET e == CHOOSE x \in m : \A y \in m : x[1] <= y[1]
         IN  <<e>> \o SortedPairs(m \ {e})

RowInd(m) == [k \in 1..Cardinality(m) |-> SortedPairs(m)[k][1]]

ColInd(m) == [k \in 1..Cardinality(m) |-> SortedPairs(m)[k][2]]

Range(s) == { s[k] : k \in 1..Len(s) }

\* variant: matched cells set to 1, not scaled
FillCoupling_unscaled(rows, cols, n1, n2) ==
    LET matched == { <<rows[k], cols[k]>> : k \in 1..Len(rows) }
    IN  [i \in 1..n1 |-> [j \in 1..n2 |->
            IF <<i, j>> \in matched THEN R(1, 1) ELSE R(0, 1)]]

\* variant: matched cells scaled by 1/min(n1,n2)
FillCoupling_minscale(rows, cols, n1, n2) ==
    LET matched == { <<rows[k], cols[k]>> : k \in 1..Len(rows) }
        p0 == [i \in 1..n1 |-> [j \in 1..n2 |->
                 IF <<i, j>> \in matched THEN R(1, Smaller(n1, n2)) ELSE R(0, 1)]]
    IN  IF n1 < n2
        THEN [i \in 1..n1 |-> [j \in 1..n2 |->
                 IF j \notin Range(cols) THEN R(1, n1 * n2) ELSE p0[i][j]]]
        ELSE IF n2 < n1
        THEN [i \in 1..n1 |-> [j \in 1..n2 |->
                 IF i \notin Range(rows) THEN R(1, n1 * n2) ELSE p0[i][j]]]
        ELSE p0

\* variant: the column mask inverted (j in col_ind)
FillCoupling_maskinverted(rows, cols, n1, n2) ==
    LET matched == { <<rows[k], cols[k]>> : k \in 1..Len(rows) }
        p0 == [i \in 1..n1 |-> [j \in 1..n2 |->
                 IF <<i, j>> \in matched THEN R(1, Larger(n1, n2)) ELSE R(0, 1)]]
    IN  IF n1 < n2
        THEN [i \in 1..n1 |-> [j \in 1..n2 |->
                 IF j \in Range(cols) THEN R(1, n1 * n2) ELSE p0[i][j]]]
        ELSE IF n2 < n1
        THEN [i \in 1..n1 |-> [j \in 1..n2 |->
                 IF i \notin Range(rows) THEN R(1, n1 * n2) ELSE p0[i][j]]]
        ELSE p0

\* variant: no leftover mass written when n2 < n1
FillCoupling_norowfill(rows, cols, n1, n2) ==
    LET matched == { <<rows[k], cols[k]>> : k \in 1..Len(rows) }
        p0 == [i \in 1..n1 |-> [j \in 1..n2 |->
                 IF <<i, j>> \in matched THEN R(1, Larger(n1, n2)) ELSE R(0, 1)]]
    IN  IF n1 < n2
        THEN [i \in 1..n1 |-> [j \in 1..n2 |->
                 IF j \notin Range(cols) THEN R(1, n1 * n2) ELSE p0[i][j]]]
        ELSE p0

\* lines 27-30: the matrix built from the matching
FillCoupling(rows, cols, n1, n2) ==
    LET matched == { <<rows[k], cols[k]>> : k \in 1..Len(rows) }
        p0 == [i \in 1..n1 |-> [j \in 1..n2 |->
                 IF <<i, j>> \in matched THEN R(1, Larger(n1, n2)) ELSE R(0, 1)]]
    IN  IF n1 < n2
        THEN [i \in 1..n1 |-> [j \in 1..n2 |->
                 IF j \notin Range(cols) THEN R(1, n1 * n2) ELSE p0[i][j]]]
        ELSE IF n2 < n1
        THEN [i \in 1..n1 |-> [j \in 1..n2 |->
                 IF i \notin Range(rows) THEN R(1, n1 * n2) ELSE p0[i][j]]]
        ELSE p0

\* --------------------------------------------------------------- intersect
\* [value for value in lst1 if value in temp]
RECURSIVE Filter(_, _)
Filter(lst, temp) ==
    IF lst = <<>> THEN <<>>
    ELSE (IF Head(lst) \in temp THEN <<Head(lst)>> ELSE <<>>) \o Filter(Tail(lst), temp)

\* variant: the common values, each once, in increasing order
RECURSIVE SortedSeq(_)
SortedSeq(S) ==
    IF S = {} THEN <<>>
    ELSE LET m == CHOOSE x \in S : \A y \in S : x <= y
         IN  <<m>> \o SortedSeq(S \ {m})

intersect_set(l1, l2) == SortedSeq(Range(l1) \cap Range(l2))

intersect(l1, l2) == LET temp == Range(l2) IN Filter(l1, temp)

\* ------------------------------------------------------------ KL divergence
\* variant: the assertion not evaluated
SameFeatures_off(sx, sy) == TRUE

\* the assert of lines 44 and 67 on shapes <<rows, columns>>
SameFeatures(sx, sy) == sx[2] = sy[2]

\* np.dot(X, log_Y.T) of an (n,kx) by a (ky,m) array needs kx = ky
DotAligned(sx, sy) == sx[2] = sy[2]

\* ------------------------------------------------------------------- state
VARIABLES call, pc, err, X, Y, use_ot, Xn, Yn, dist, row_ind, col_ind, pi,
          shapeX, shapeY, trace, D, lst1, lst2, lst3

vars == <<call, pc, err, X, Y, use_ot, Xn, Yn, dist, row_ind, col_ind, pi,
          shapeX, shapeY, trace, D, lst1, lst2, lst3>>

matchVars == <<X, Y, use_ot, Xn, Yn, dist, row_ind, col_ind, pi>>

klVars == <<shapeX, shapeY, trace, D>>

listVars == <<lst1, lst2, lst3>>

SeqsUpTo(S, n) == UNION { [1..k -> S] : k \in 0..n }

PointSets == UNION { [1..k -> 0..MaxCoord] : k \in 1..MaxN }

Shapes == (1..MaxRows) \X (1..MaxFeat)

Lists == SeqsUpTo(1..MaxVal, MaxLen)

InitMatch(ot) ==
    /\ call = "match_spots_using_spatial_heuristic"
    /\ X \in PointSets /\ Y \in PointSets /\ use_ot = ot
    /\ shapeX = <<>> /\ shapeY = <<>> /\ lst1 = <<>> /\ lst2 = <<>>

InitNorm ==
    /\ call = "norm_and_center_coordinates"
    /\ X \in PointSets /\ Y = <<>> /\ use_ot = FALSE
    /\ shapeX = <<>> /\ shapeY = <<>> /\ lst1 = <<>> /\ lst2 = <<>>

InitKL ==
    /\ call \in {"kl_divergence", "kl_divergence_backend"}
    /\ shapeX \in Shapes /\ shapeY \in Shapes
    /\ X = <<>> /\ Y = <<>> /\ use_ot = FALSE /\ lst1 = <<>> /\ lst2 = <<>>

InitIntersect ==
    /\ call = "intersect"
    /\ lst1 \in Lists /\ lst2 \in Lists
    /\ X = <<>> /\ Y = <<>> /\ use_ot = FALSE /\ shapeX = <<>> /\ shapeY = <<>>

\* nothing computed yet
InitLocals ==
    /\ pc = "start" /\ err = "none"
    /\ Xn = <<>> /\ Yn = <<>> /\ dist = <<>> /\ row_ind = <<>> /\ col_ind = <<>>
    /\ pi = <<>> /\ trace = <<>> /\ D = <<>> /\ lst3 = <<>>

\* ------------------------------------ match_spots_using_spatial_heuristic
\* lines 20-21
MatchNormalize ==
    /\ call = "match_spots_using_spatial_heuristic" /\ pc = "start"
    /\ IF NormRaises(X) \/ NormRaises(Y)
       THEN /\ pc' = "raised" /\ err' = "ValueError"
            /\ UNCHANGED <<Xn, Yn>>
       ELSE /\ Xn' = norm_and_center_coordinates(X)
            /\ Yn' = norm_and_center_coordinates(Y)
            /\ pc' = "normalized" /\ UNCHANGED err
    /\ UNCHANGED <<call, X, Y, use_ot, dist, row_ind, col_ind, pi, klVars, listVars>>

\* line 22
MatchDistance ==
    /\ call = "match_spots_using_spatial_heuristic" /\ pc = "normalized"
    /\ dist' = distance_matrix(Xn, Yn)
    /\ pc' = "dist"
    /\ UNCHANGED <<call, err, X, Y, use_ot, Xn, Yn, row_ind, col_ind, pi, klVars, listVars>>

\* lines 23-24 and 31
MatchOT ==
    /\ call = "match_spots_using_spatial_heuristic" /\ pc = "dist"
    /\ use_ot /\ MatrixFinite(dist)
    /\ \E P \in OTCall(Len(X), Len(Y), dist) : pi' = P
    /\ pc' = "done"
    /\ UNCHANGED <<call, err, X, Y, use_ot, Xn, Yn, dist, row_ind, col_ind, klVars, listVars>>

\* line 26; the matcher raises ValueError when the graph has no full matching
MatchBipartite ==
    /\ call = "match_spots_using_spatial_heuristic" /\ pc = "dist"
    /\ ~use_ot /\ MatrixFinite(dist)
    /\ LET ms == MatchingCall(Len(X), Len(Y), dist)
       IN  IF ms = {}
           THEN /\ pc' = "raised" /\ err' = "ValueError"
                /\ UNCHANGED <<row_ind, col_ind>>
           ELSE /\ \E m \in ms : row_ind' = RowInd(m) /\ col_ind' = ColInd(m)
                /\ pc' = "matched" /\ UNCHANGED err
    /\ UNCHANGED <<call, X, Y, use_ot, Xn, Yn, dist, pi, klVars, listVars>>

\* lines 27-31
MatchFill ==
    /\ call = "match_spots_using_spatial_heuristic" /\ pc = "matched"
    /\ pi' = FillCoupling(row_ind, col_ind, Len(X), Len(Y))
    /\ pc' = "done"
    /\ UNCHANGED <<call, err, X, Y, use_ot, Xn, Yn, dist, row_ind, col_ind, klVars, listVars>>

\* lines 23-26 with inf or NaN in dist: no exception has been raised, and the
\* solver is called outside its contract; what it returns is left open
MatchNonFinite ==
    /\ call = "match_spots_using_spatial_heuristic" /\ pc = "dist"
    /\ ~MatrixFinite(dist)
    /\ pc' = "solver_undefined"
    /\ UNCHANGED <<call, err, matchVars, klVars, listVars>>

\* ------------------------------ norm_and_center_coordinates called directly
NormCall ==
    /\ call = "norm_and_center_coordinates" /\ pc = "start"
    /\ IF NormRaises(X)
       THEN pc' = "raised" /\ err' = "ValueError" /\ UNCHANGED Xn
       ELSE Xn' = norm_and_center_coordinates(X) /\ pc' = "done" /\ UNCHANGED err
    /\ UNCHANGED <<call, X, Y, use_ot, Yn, dist, row_ind, col_ind, pi, klVars, listVars>>

\* ------------------------------------------------------------ kl_divergence
\* line 44
KLAssert ==
    /\ call = "kl_divergence" /\ pc = "start"
    /\ IF SameFeatures(shapeX, shapeY)
       THEN pc' = "asserted" /\ UNCHANGED err
       ELSE pc' = "raised" /\ err' = "AssertionError"
    /\ UNCHANGED <<call, matchVars, klVars, listVars>>

\* lines 46-47
KLNormalize ==
    /\ call = "kl_divergence" /\ pc = "asserted"
    /\ trace' = trace \o <<"normalize">>
    /\ pc' = "normalized"
    /\ UNCHANGED <<call, err, matchVars, shapeX, shapeY, D, listVars>>

\* lines 48-49
KLLog ==
    /\ call = "kl_divergence" /\ pc = "normalized"
    /\ trace' = trace \o <<"log">>
    /\ pc' = "logged"
    /\ UNCHANGED <<call, err, matchVars, shapeX, shapeY, D, listVars>>

\* lines 50-52
KLDot ==
    /\ call = "kl_divergence" /\ pc = "logged"
    /\ trace' = trace \o <<"dot">>
    /\ IF DotAligned(shapeX, shapeY)
       THEN D' = <<shapeX[1], shapeY[1]>> /\ pc' = "done" /\ UNCHANGED err
       ELSE pc' = "raised" /\ err' = "ValueError" /\ UNCHANGED D
    /\ UNCHANGED <<call, matchVars, shapeX, shapeY, listVars>>

\* ---------------------------------------------------- kl_divergence_backend
\* lines 67-69
KLBAssert ==
    /\ call = "kl_divergence_backend" /\ pc = "start"
    /\ IF SameFeatures(shapeX, shapeY)
       THEN pc' = "asserted" /\ UNCHANGED err
       ELSE pc' = "raised" /\ err' = "AssertionError"
    /\ UNCHANGED <<call, matchVars, klVars, listVars>>

\* lines 71-72
KLBNormalize ==
    /\ call = "kl_divergence_backend" /\ pc = "asserted"
    /\ trace' = trace \o <<"normalize">>
    /\ pc' = "normalized"
    /\ UNCHANGED <<call, err, matchVars, shapeX, shapeY, D, listVars>>

\* lines 73-74
KLBLog ==
    /\ call = "kl_divergence_backend" /\ pc = "normalized"
    /\ trace' = trace \o <<"log">>
    /\ pc' = "logged"
    /\ UNCHANGED <<call, err, matchVars, shapeX, shapeY, D, listVars>>

\* lines 75-78
KLBDot ==
    /\ call = "kl_divergence_backend" /\ pc = "logged"
    /\ trace' = trace \o <<"dot">>
    /\ IF DotAligned(shapeX, shapeY)
       THEN D' = <<shapeX[1], shapeY[1]>> /\ pc' = "done" /\ UNCHANGED err
       ELSE pc' = "raised" /\ err' = "ValueError" /\ UNCHANGED D
    /\ UNCHANGED <<call, matchVars, shapeX, shapeY, listVars>>

\* ---------------------------------------------------------------- intersect
\* lines 93-95
Intersect ==
    /\ call = "intersect" /\ pc = "start"
    /\ lst3' = intersect(lst1, lst2)
    /\ pc' = "done"
    /\ UNCHANGED <<call, err, matchVars, klVars, lst1, lst2>>

\* match_spots_using_spatial_heuristic(X, Y, use_ot=True)
InitOT == InitLocals /\ InitMatch(TRUE)

NextOT == MatchNormalize \/ MatchDistance \/ MatchOT \/ MatchNonFinite

SpecOT == InitOT /\ [][NextOT]_vars

\* match_spots_using_spatial_heuristic(X, Y, use_ot=False) and
\* norm_and_center_coordinates(X)
InitMatching == InitLocals /\ (InitMatch(FALSE) \/ InitNorm)

NextMatching ==
    \/ MatchNormalize \/ MatchDistance \/ MatchBipartite \/ MatchFill
    \/ MatchNonFinite \/ NormCall

SpecMatching == InitMatching /\ [][NextMatching]_vars

\* kl_divergence(X, Y) and kl_divergence_backend(X, Y)
InitDivergence == InitLocals /\ InitKL

NextDivergence ==
    \/ KLAssert \/ KLNormalize \/ KLLog \/ KLDot
    \/ KLBAssert \/ KLBNormalize \/ KLBLog \/ KLBDot

SpecDivergence == InitDivergence /\ [][NextDivergence]_vars

\* intersect(lst1, lst2)
InitList == InitLocals /\ InitIntersect

NextList == Intersect

SpecList == InitList /\ [][NextList]_vars

\* ================================================================= claims
IsMatch == call = "match_spots_using_spatial_heuristic"

IsNorm == call = "norm_and_center_coordinates"

IsKL == call \in {"kl_divergence", "kl_divergence_backend"}

Zero == R(0, 1)

HasShape(P, n1, n2) == Len(P) = n1 /\ \A i \in 1..n1 : Len(P[i]) = n2

RowSum(P, i) == RSum(P[i])

ColSum(P, j) == RSum([i \in 1..Len(P) |-> P[i][j]])

TotalMass(P) == RSum([i \in 1..Len(P) |-> RowSum(P, i)])

Cells(P) == { c \in (1..Len(P)) \X (1..Len(P[1])) : TRUE }

CellsEqual(P, v) == { c \in Cells(P) : P[c[1]][c[2]] = v }

MatchedCells == { <<row_ind[k], col_ind[k]>> : k \in 1..Len(row_ind) }

\* C1: with use_ot=True the returned matrix is n1-by-n2, has no negative
\* entry, every row sums to 1/n1, every column to 1/n2, and the total is 1.
Thm_C1 ==
    (IsMatch /\ pc = "done" /\ use_ot) =>
        LET n1 == Len(X)
            n2 == Len(Y)
        IN  /\ HasShape(pi, n1, n2)
            /\ \A i \in 1..n1 : \A j \in 1..n2 : RLe(Zero, pi[i][j])
            /\ \A i \in 1..n1 : RowSum(pi, i) = R(1, n1)
            /\ \A j \in 1..n2 : ColSum(pi, j) = R(1, n2)
            /\ TotalMass(pi) = R(1, 1)

Wit_C1 == IsMatch /\ pc = "done" /\ use_ot /\ Len(X) = 2 /\ Len(Y) = 3

\* C2: with use_ot=False and n1 = n2 the returned matrix is a permutation
\* matrix scaled by 1/n1: each row and each column has exactly one non-zero
\* entry, and that entry is 1/n1.
Thm_C2 ==
    (IsMatch /\ pc = "done" /\ ~use_ot /\ Len(X) = Len(Y)) =>
        LET n == Len(X)
        IN  /\ HasShape(pi, n, n)
            /\ \A i \in 1..n :
                 /\ Cardinality({ j \in 1..n : pi[i][j] # Zero }) = 1
                 /\ \A j \in 1..n : pi[i][j] # Zero => pi[i][j] = R(1, n)
            /\ \A j \in 1..n :
                 Cardinality({ i \in 1..n : pi[i][j] # Zero }) = 1

Wit_C2 == IsMatch /\ pc = "done" /\ ~use_ot /\ Len(X) = 3 /\ Len(Y) = 3

\* C3: with use_ot=False and n1 < n2, every row i has exactly one entry equal
\* to 1/n2, at the column matched to i; every column in no matched pair holds
\* 1/(n1*n2) in all n1 rows; every other entry is 0.
Thm_C3 ==
    (IsMatch /\ pc = "done" /\ ~use_ot /\ Len(X) < Len(Y)) =>
        LET n1 == Len(X)
            n2 == Len(Y)
            unmatched == (1..n2) \ Range(col_ind)
        IN  /\ HasShape(pi, n1, n2)
            /\ \A i \in 1..n1 :
                 /\ Cardinality({ j \in 1..n2 : pi[i][j] = R(1, n2) }) = 1
                 /\ \E k \in 1..Len(row_ind) :
                      row_ind[k] = i /\ pi[i][col_ind[k]] = R(1, n2)
            /\ \A j \in unmatched : \A i \in 1..n1 : pi[i][j] = R(1, n1 * n2)
            /\ \A c \in Cells(pi) :
                 (c \notin MatchedCells /\ c[2] \notin unmatched)
                     => pi[c[1]][c[2]] = Zero

Wit_C3 == IsMatch /\ pc = "done" /\ ~use_ot /\ Len(X) = 2 /\ Len(Y) = 3

\* C4: with use_ot=False and n2 < n1 there are exactly n2 cells of value 1/n1,
\* the matched ones, one per column and in distinct rows; every row in no
\* matched pair holds 1/(n1*n2) in all n2 columns; every other entry is 0.
\* For n1 = 3, n2 = 2: two cells of 1/3 and one full row of 1/6.
Thm_C4 ==
    (IsMatch /\ pc = "done" /\ ~use_ot /\ Len(Y) < Len(X)) =>
        LET n1 == Len(X)
            n2 == Len(Y)
            unmatched == (1..n1) \ Range(row_ind)
        IN  /\ HasShape(pi, n1, n2)
            /\ CellsEqual(pi, R(1, n1)) = MatchedCells
            /\ Cardinality(MatchedCells) = n2
            /\ \A j \in 1..n2 : Cardinality({ c \in MatchedCells : c[2] = j }) = 1
            /\ \A i \in 1..n1 : Cardinality({ c \in MatchedCells : c[1] = i }) <= 1
            /\ \A i \in unmatched : \A j \in 1..n2 : pi[i][j] = R(1, n1 * n2)
            /\ \A c \in Cells(pi) :
                 (c \notin MatchedCells /\ c[1] \notin unmatched)
                     => pi[c[1]][c[2]] = Zero
            /\ (n1 = 3 /\ n2 = 2) =>
                 /\ Cardinality(CellsEqual(pi, R(1, 3))) = 2
                 /\ Cardinality({ i \in 1..3 : \A j \in 1..2 : pi[i][j] = R(1, 6) }) = 1
                 /\ Cardinality(CellsEqual(pi, R(1, 6))) = 2

Wit_C4 == IsMatch /\ pc = "done" /\ ~use_ot /\ Len(X) = 3 /\ Len(Y) = 2

\* all entries of M taken as edges: the dense cost matrix
DenseEdges(M) == (1..Len(M)) \X (1..Len(M[1]))

\* C5: the matching used with use_ot=False has min(n1,n2) pairs, uses each row
\* and each column index at most once, and its total cost is the minimum over
\* all full matchings of the dense distance matrix, also when a normalized
\* point of X coincides with one of Y.
Claim_C5 ==
    (IsMatch /\ pc = "matched") =>
        LET n1 == Len(X)
            n2 == Len(Y)
        IN  /\ Len(row_ind) = Smaller(n1, n2)
            /\ Len(col_ind) = Smaller(n1, n2)
            /\ IsInjective(row_ind)
            /\ IsInjective(col_ind)
            /\ \A q \in FullMatchings(DenseEdges(dist), n1, n2) :
                 RLe(MatchCost(MatchedCells, dist), MatchCost(q, dist))

\* at least two points, two of them at the same position
Degenerate(P) == Len(P) >= 2 /\ RMin(pdist(P)) = Zero

\* C6: when the minimum pairwise distance of a point set is 0,
\* norm_and_center_coordinates raises and returns nothing holding inf or NaN,
\* and so does match_spots_using_spatial_heuristic for X and for Y.
Claim_C6 ==
    /\ (IsNorm /\ pc # "start" /\ Degenerate(X)) =>
           (pc = "raised" /\ AllFinite(Xn))
    /\ (IsMatch /\ pc # "start" /\ Len(X) >= 2 /\ Len(Y) >= 2
           /\ (Degenerate(X) \/ Degenerate(Y))) =>
           (pc = "raised" /\ AllFinite(Xn) /\ AllFinite(Yn))

\* the statement of C7 about an input P and a result Q
RMean(Q) == RDiv(RSum(Q), R(Len(Q), 1))

RECURSIVE RPdist(_)
RPdist(Q) ==
    IF Len(Q) <= 1 THEN <<>>
    ELSE [j \in 1..(Len(Q) - 1) |-> RAbs(RSub(Q[1], Q[j + 1]))] \o RPdist(Tail(Q))

Centered(P, Q) ==
    LET c == Mean(P)
        d == RMin(pdist(P))
    IN  /\ Len(Q) = Len(P)
        /\ RMean(Q) = Zero
        /\ \A i \in 1..Len(P) :
             Q[i] = RMul(RSub(R(P[i], 1), c), RDiv(R(1, 1), d))
        /\ \E k \in 1..Len(RPdist(Q)) : RPdist(Q)[k] = R(1, 1)
        /\ \A k \in 1..Len(RPdist(Q)) : RLe(R(1, 1), RPdist(Q)[k])

Thm_C8 ==
    (call = "intersect" /\ pc = "done") =>
        LET kept == { p \in 1..Len(lst1) : \E q \in 1..Len(lst2) : lst1[p] = lst2[q] }
        IN  /\ Len(lst3) = Cardinality(kept)
            /\ \A p \in kept :
                 lst3[Cardinality({ q \in kept : q < p }) + 1] = lst1[p]
            /\ intersect(<<1, 2, 2, 3>>, <<2, 3, 4>>) = <<2, 2, 3>>

Wit_C8 ==
    /\ call = "intersect" /\ pc = "done"
    /\ lst1 = <<2, 1, 2>> /\ lst2 = <<2, 2>> /\ lst3 = <<2, 2>>

\* C9: when X and Y differ in their number of columns, kl_divergence and
\* kl_divergence_backend raise the assertion's shape-mismatch error before
\* any normalization or logarithm, and return no matrix.
Thm_C9 ==
    (IsKL /\ shapeX[2] # shapeY[2] /\ pc # "start") =>
        /\ pc = "raised" /\ err = "AssertionError"
        /\ trace = <<>>
        /\ D = <<>>

Wit_C9 ==
    /\ call = "kl_divergence_backend" /\ pc = "raised"
    /\ shapeX[2] # shapeY[2]

\* C10: with use_ot=False, for equal and unequal sizes, every row of the
\* returned matrix sums to 1/n1 and every column to 1/n2, and the total is 1.
Thm_C10 ==
    (IsMatch /\ pc = "done" /\ ~use_ot) =>
        /\ \A i \in 1..Len(X) : RowSum(pi, i) = R(1, Len(X))
        /\ \A j \in 1..Len(Y) : ColSum(pi, j) = R(1, Len(Y))
        /\ TotalMass(pi) = R(1, 1)

Wit_C10 ==
    /\ IsMatch /\ pc = "done" /\ ~use_ot /\ Len(X) = 3 /\ Len(Y) = 2
    /\ \E i \in 1..3 : \A j \in 1..2 : pi[i][j] = R(1, 6)

====
